---- MODULE Spec2Model ----
(***************************************************************************)
(* A model of overpass/api.py: the API class of the Overpass wrapper.      *)
(*   - get / _construct_ql_query / _get_from_overpass: query building,     *)
(*     the single POST, the status mapping and the decoding of the reply;  *)
(*   - _as_geojson: the conversion of the elements of a reply to GeoJSON,  *)
(*     with the ring assembly of relations, one step per member.           *)
(* Python lists are sequences, dicts are records or sets of pairs, and a   *)
(* list or dict the code mutates in place is a variable that is updated.   *)
(***************************************************************************)
EXTENDS Integers, Sequences, FiniteSets, TLC

VARIABLES
    \* ---- _as_geojson (api.py 168-315) ----
    elements,        \* the argument: the caller's element objects (mutated in place)
    orig,            \* history: the elements as they were before the first call
    again,           \* a second conversion of the same element objects: what it was
                     \* given and what it returned
    pc,              \* position of the conversion
    ei,              \* index of `elem` in elements (1-based)
    pos,             \* index of `mem` in elem["members"] (1-based)
    points, poly, polygons, prev, not_first,   \* locals of the relation branch
    no_match_count,
    features,
    last,            \* history of the last member step (see NoLast)
    err,             \* the exception that left _as_geojson, "" when none
    \* ---- get (api.py 62-109) ----
    api,             \* the API instance: timeout, _status, and the area id set on it
    args,            \* the arguments of get
    gpc,             \* position of get
    full_query,
    net,             \* the reply of the network to the POST
    posts,           \* number of POSTs sent so far
    response,        \* the parsed document
    outcome          \* what get returned or raised

vars == <<elements, orig, again, pc, ei, pos, points, poly, polygons, prev,
          not_first, no_match_count, features, last, err,
          api, args, gpc, full_query, net, posts, response, outcome>>

geoVars == <<elements, orig, again, pc, ei, pos, points, poly, polygons, prev,
             not_first, no_match_count, features, last, err>>

getVars == <<api, args, gpc, full_query, net, posts, response, outcome>>

-----------------------------------------------------------------------------
(* Bounds and input sets *)

\* the largest number of members of a relation
MaxMembers == 3

\* coordinate pairs of the replies: two share a longitude, two share a latitude
Coords == { [lon |-> 0, lat |-> 0], [lon |-> 1, lat |-> 0], [lon |-> 1, lat |-> 1] }

\* way segments: every two-point segment over Coords
Geoms == { <<a, b>> : a \in Coords, b \in Coords }

Roles == {"outer", "inner", "subarea"}

\* a dict of tags is a set of <<key, value>> pairs; present = FALSE is Python's None
NoTags == [present |-> FALSE, kv |-> {}]
SomeTags == [present |-> TRUE, kv |-> {<<"name", 5>>}]

\* the coordinates of a list of way segments in reading order
RECURSIVE Flat(_)
Flat(gs) == IF gs = <<>> THEN <<>> ELSE gs[1] \o Flat(Tail(gs))

\* Coords in a fixed order
Rank(c) == c.lon + c.lat + 1

\* The code only copies coordinates and compares them for equality (Dist(p, c) = 0
\* iff p is c, and ==), so renaming the coordinates of a relation renames its
\* features and nothing else. One list of segments stands for all its renamings:
\* the one whose coordinates first appear in the order of Rank.
Canonical(gs) ==
    LET f == Flat(gs)
    IN \A k \in 1..Len(f) :
          \/ Rank(f[k]) = 1
          \/ \E j \in 1..(k - 1) : Rank(f[j]) = Rank(f[k]) - 1

\* the canonical lists of n way segments
SegmentLists(n) == { g \in [1..n -> Geoms] : Canonical(g) }

\* elem["members"] with roles rs on segments gs; ref is the identity of the member
\* object, which no assignment of the code changes
MakeMembers(rs, gs) ==
    [i \in 1..Len(gs) |-> [role |-> rs[i], geometry |-> gs[i], ref |-> i]]

ARelation(ms) == [type |-> "relation", id |-> 7, tags |-> SomeTags, members |-> ms]

AWay == [type |-> "way", id |-> 3, tags |-> SomeTags,
         geometry |-> << [lon |-> 0, lat |-> 0], [lon |-> 1, lat |-> 1] >>]

ANode == [type |-> "node", id |-> 4, tags |-> NoTags, lon |-> 1, lat |-> 0]

\* the longest QL fragment, in tokens
MaxLen == 2

\* A string is a sequence of tokens: a whitespace character, the terminator ";",
\* or a run of other characters kept whole.
Whitespace == {" "}
Tokens == {"node[shop=retail]", ";"} \cup Whitespace

\* api.py 25
SUPPORTED_FORMATS == {"geojson", "json", "xml", "csv"}

Verbosities == {"body", "geom"}

\* api.py 28: the class default _timeout
DefaultTimeout == 25

\* the timeout= keyword of API(...): 0 stands for "not given"
TimeoutArgs == {0, 60}

\* the area id the caller sets on the instance before the call (tests/test_api.py
\* 3-4, 28: 3600000000 + 392915), as text; "none" when it sets none
AreaIds == {"none", "3600392915"}

\* relations of the sampled replies: an outer ring in two members, and a closed
\* outer way on a relation without tags
TwoWayRing ==
    [type |-> "relation", id |-> 7, tags |-> SomeTags,
     members |-> MakeMembers(<<"outer", "outer">>,
                             << << [lon |-> 0, lat |-> 0], [lon |-> 1, lat |-> 0] >>,
                                << [lon |-> 0, lat |-> 0], [lon |-> 1, lat |-> 0] >> >>)]

UntaggedRing ==
    [type |-> "relation", id |-> 7, tags |-> NoTags,
     members |-> MakeMembers(<<"outer">>, << << [lon |-> 0, lat |-> 0], [lon |-> 0, lat |-> 0] >> >>)]

\* the value of "elements" in the sampled replies
ElementLists == { <<>>, <<ANode, AWay>>, <<AWay, TwoWayRing>>, <<UntaggedRing, ANode>> }

\* the value of "remark" in the sampled replies
RuntimeErrorText == <<"runtime", " ", "error">>
Remarks == { <<>>, <<"runtime", " ", "error", ": timed out">>, <<"runtime", " ", "warning">>,
             <<"a", " ", "runtime", " ", "error">> }

\* the JSON documents of the sampled replies: each key present or not
Documents ==
    { d \in [has_elements : BOOLEAN, elements : ElementLists,
             has_remark : BOOLEAN, remark : Remarks] :
        /\ (~d.has_elements => d.elements = <<>>)
        /\ (~d.has_remark => d.remark = <<>>) }

\* the body of a reply that is not JSON
NoDocument == [has_elements |-> FALSE, elements |-> <<>>, has_remark |-> FALSE, remark |-> <<>>]

ContentTypes == {"text/csv", "application/osm3s+xml", "application/json", "text/html"}

Statuses == {200, 400, 404, 429, 500, 504}

-----------------------------------------------------------------------------
(* Helpers on sequences and dicts *)

First(s) == s[1]

Last(s) == s[Len(s)]

\* list(reversed(s))
Reverse(s) == [i \in 1..Len(s) |-> s[Len(s) + 1 - i]]

\* d.update({k: v})
DictUpdate(kv, k, v) == { p \in kv : p[1] # k } \cup { <<k, v>> }

\* (p[0] - c["lon"]) ** 2 + (p[1] - c["lat"]) ** 2
Dist(p, c) == (p[1] - c.lon) * (p[1] - c.lon) + (p[2] - c.lat) * (p[2] - c.lat)

\* [[coords["lon"], coords["lat"]] for coords in geometry]
PointsOf(geometry) == [i \in 1..Len(geometry) |-> <<geometry[i].lon, geometry[i].lat>>]

-----------------------------------------------------------------------------
(* _as_geojson: the ring assembly of one relation (api.py 193-313) *)

\* api.py 233-253: the first member after position p with an end on points[-1];
\* 0 when there is none (point_found stays False)
FindMatch(members, p, pts) ==
    LET hits == { i \in (p + 1)..Len(members) :
                    \/ Dist(Last(pts), First(members[i].geometry)) = 0
                    \/ Dist(Last(pts), Last(members[i].geometry)) = 0 }
    IN IF hits = {} THEN 0 ELSE CHOOSE i \in hits : \A j \in hits : i <= j

\* SwapMembers putting the member found at position p and leaving it at i as well
SwapMembersOverwrite(members, p, i) ==
    [members EXCEPT ![p] = members[i]]

\* api.py 245-248: elem['members'][pos], elem['members'][i] = the two exchanged
SwapMembers(members, p, i) ==
    [members EXCEPT ![p] = members[i], ![i] = members[p]]

\* api.py 217, 230, 253: mem["geometry"] = list(reversed(mem["geometry"]))
FlipMember(members, p) ==
    [members EXCEPT ![p].geometry = Reverse(members[p].geometry)]

\* LookAheadAt reversing the member found when its first point matched
LookAheadAtFlipOnStart(members, p, pts, i) ==
    IF i = 0
    THEN [members |-> members, points |-> pts, rule |-> "nomatch"]
    ELSE [members |-> IF Dist(Last(pts), First(members[i].geometry)) = 0
                      THEN FlipMember(SwapMembers(members, p, i), p)
                      ELSE SwapMembers(members, p, i),
          points |-> pts, rule |-> "swap"]

\* api.py 242-253: the member found at position i is swapped into position p, and
\* reversed when its last point is on points[-1]; i = 0: nothing was found
LookAheadAt(members, p, pts, i) ==
    IF i = 0
    THEN [members |-> members, points |-> pts, rule |-> "nomatch"]
    ELSE [members |-> IF Dist(Last(pts), Last(members[i].geometry)) = 0
                      THEN FlipMember(SwapMembers(members, p, i), p)
                      ELSE SwapMembers(members, p, i),
          points |-> pts, rule |-> "swap"]

\* api.py 232-258: no end of mem is on either end of points: look ahead
LookAhead(members, p, pts) == LookAheadAt(members, p, pts, FindMatch(members, p, pts))

\* Adjust leaving a member entered in the wrong direction as it is
AdjustKeepsDirection(members, p, pts) ==
    LET g == members[p].geometry
    IN IF pts = <<>>
       THEN [members |-> members, points |-> pts, rule |-> "fresh"]
       ELSE IF Dist(Last(pts), First(g)) = 0
       THEN [members |-> members, points |-> pts, rule |-> "start"]
       ELSE IF Dist(Last(pts), Last(g)) = 0
       THEN [members |-> members, points |-> pts, rule |-> "end"]
       ELSE IF Dist(First(pts), First(g)) = 0
       THEN [members |-> members, points |-> Reverse(pts), rule |-> "flip_start"]
       ELSE IF Dist(First(pts), Last(g)) = 0
       THEN [members |-> FlipMember(members, p), points |-> Reverse(pts),
             rule |-> "flip_end"]
       ELSE LookAhead(members, p, pts)

\* api.py 208-258: orient mem (or points) so that mem continues points
Adjust(members, p, pts) ==
    LET g == members[p].geometry
    IN IF pts = <<>>
       THEN [members |-> members, points |-> pts, rule |-> "fresh"]
       ELSE IF Dist(Last(pts), First(g)) = 0
       THEN [members |-> members, points |-> pts, rule |-> "start"]
       ELSE IF Dist(Last(pts), Last(g)) = 0
       THEN [members |-> FlipMember(members, p), points |-> pts, rule |-> "end"]
       ELSE IF Dist(First(pts), First(g)) = 0
       THEN [members |-> members, points |-> Reverse(pts), rule |-> "flip_start"]
       ELSE IF Dist(First(pts), Last(g)) = 0
       THEN [members |-> FlipMember(members, p), points |-> Reverse(pts),
             rule |-> "flip_end"]
       ELSE LookAhead(members, p, pts)

\* the closing test always passing
RingClosedAlways(pts) == TRUE

\* api.py 277, 290: points[-1] == points[0]
RingClosed(pts) == Last(pts) = First(pts)

\* api.py 277-280, 290-292: a closed ring moves from points to poly
CloseRing(l) ==
    IF RingClosed(l.points)
    THEN [l EXCEPT !.poly = Append(l.poly, l.points), !.points = <<>>,
                   !.src = [points |-> {}, poly |-> Append(l.src.poly, l.src.points),
                            polygons |-> l.src.polygons]]
    ELSE l

\* ConsumeOuter starting a new ring at every outer member
ConsumeOuterAlwaysFresh(l, mem) ==
    LET l1 == [l EXCEPT !.polygons = IF l.not_first THEN Append(l.polygons, l.poly) ELSE @,
                        !.poly = IF l.not_first THEN <<>> ELSE @,
                        !.points = PointsOf(mem.geometry),
                        !.src = [points |-> {mem.role},
                                 poly |-> IF l.not_first THEN <<>> ELSE @.poly,
                                 polygons |-> IF l.not_first THEN Append(@.polygons, @.poly)
                                              ELSE @.polygons]]
    IN [CloseRing(l1) EXCEPT !.prev = "outer"]

\* ConsumeOuter never starting a new polygon group
ConsumeOuterOneGroup(l, mem) ==
    LET l1 == [l EXCEPT !.points = (IF l.prev = "inner" THEN <<>> ELSE l.points)
                                      \o PointsOf(mem.geometry),
                        !.src.points = (IF l.prev = "inner" THEN {} ELSE @)
                                          \cup {mem.role}]
    IN [CloseRing(l1) EXCEPT !.prev = "outer"]

\* api.py 261-282: a member of role outer
ConsumeOuter(l, mem) ==
    LET pts1 == IF l.prev = "inner" THEN <<>> ELSE l.points
        cut == pts1 = <<>> /\ l.not_first
        l1 == [l EXCEPT !.polygons = IF cut THEN Append(l.polygons, l.poly) ELSE @,
                        !.poly = IF cut THEN <<>> ELSE @,
                        !.points = pts1 \o PointsOf(mem.geometry),
                        !.src = [points |-> (IF l.prev = "inner" THEN {} ELSE @.points)
                                               \cup {mem.role},
                                 poly |-> IF cut THEN <<>> ELSE @.poly,
                                 polygons |-> IF cut THEN Append(@.polygons, @.poly)
                                              ELSE @.polygons]]
    IN [CloseRing(l1) EXCEPT !.prev = "outer"]

\* ConsumeInner forgetting a closed inner ring instead of storing it
ConsumeInnerDropsRing(l, mem) ==
    LET l1 == [l EXCEPT !.points = l.points \o PointsOf(mem.geometry),
                        !.src.points = @ \cup {mem.role}]
    IN [(IF RingClosed(l1.points) THEN [l1 EXCEPT !.points = <<>>, !.src.points = {}]
                                  ELSE l1) EXCEPT !.prev = "inner"]

\* api.py 285-294: a member of role inner
ConsumeInner(l, mem) ==
    LET l1 == [l EXCEPT !.points = l.points \o PointsOf(mem.geometry),
                        !.src.points = @ \cup {mem.role}]
    IN [CloseRing(l1) EXCEPT !.prev = "inner"]

\* api.py 260-296: the role blocks, then not_first = True
Consume(l, mem) ==
    LET l1 == IF mem.role = "outer" THEN ConsumeOuter(l, mem)
              ELSE IF mem.role = "inner" THEN ConsumeInner(l, mem)
              ELSE l
    IN [l1 EXCEPT !.not_first = TRUE,
                  !.taken = IF mem.role \in {"outer", "inner"} THEN Append(@, mem.ref) ELSE @]

\* api.py 217, 226-230, 245-253: what the adjacency step a leaves in the locals
Adjusted(l, p, a) ==
    [l EXCEPT !.members = a.members, !.points = a.points, !.rule = a.rule,
              !.role = a.members[p].role, !.visited = l.members[p].role,
              !.seen = Append(@, a.members[p].ref)]

\* Skip giving up the ring in progress as well
SkipDropsRing(l) == [l EXCEPT !.no_match_count = @ + 1, !.points = <<>>]

\* api.py 255-258: no match: count it and `continue`
Skip(l) == [l EXCEPT !.no_match_count = @ + 1]

\* api.py 255-296: after the adjacency step a: skip the member or consume it
AfterAdjust(l, p, a) ==
    IF a.rule = "nomatch"
    THEN Skip(Adjusted(l, p, a))
    ELSE Consume(Adjusted(l, p, a), a.members[p])

\* api.py 203-296: one iteration of `for pos in range(len(elem["members"]))`;
\* l holds the locals and the relation's member list
MemberStep(l, p) == AfterAdjust(l, p, Adjust(l.members, p, l.points))

\* history kept beside points, poly and polygons: the roles of the members whose
\* coordinates each in-progress or stored ring holds
NoSrc == [points |-> {}, poly |-> <<>>, polygons |-> <<>>]

\* history of the last member step: the rule it took, the role of the member it
\* found at pos, the role of the member it treated, and the roles behind the rings;
\* and of the member loop so far: the members treated as mem, one per step (seen),
\* and those whose coordinates were appended to points (taken)
NoLast == [rule |-> "fresh", role |-> "none", visited |-> "none", src |-> NoSrc,
           seen |-> <<>>, taken |-> <<>>]

\* api.py 194-200: the locals at the start of a relation
RelationStart(members, count) ==
    [members |-> members, points |-> <<>>, poly |-> <<>>, polygons |-> <<>>,
     prev |-> "inner", not_first |-> FALSE, no_match_count |-> count,
     rule |-> "fresh", role |-> "none", visited |-> "none", src |-> NoSrc,
     seen |-> <<>>, taken |-> <<>>]

\* api.py 301: polygons != [[]]
HasPolygons(pgs) == pgs # << <<>> >>

\* api.py 304-310: one MultiPolygon feature of a relation
MultiPolygonFeature(props, outer_poly) ==
    [type |-> "Feature", properties |-> props,
     geometry |-> [type |-> "MultiPolygon", coordinates |-> <<outer_poly>>]]

\* api.py 304-305: poly_props = elem.get("tags"); poly_props.update({'id': elem['id']})
InjectId(elem) == [present |-> TRUE, kv |-> DictUpdate(elem.tags.kv, "id", elem.id)]

\* api.py 298-313: the features of a relation whose polygons are pgs (poly appended)
RelationFeatures(elem, pgs) ==
    IF HasPolygons(pgs)
    THEN [i \in 1..Len(pgs) |-> MultiPolygonFeature(InjectId(elem), pgs[i])]
    ELSE <<>>

\* api.py 175-180: the Point feature of a node; geojson.Feature keeps {} for None
NodeFeature(elem) ==
    [type |-> "Feature", id |-> elem.id,
     properties |-> IF elem.tags.present THEN elem.tags ELSE [present |-> TRUE, kv |-> {}],
     geometry |-> [type |-> "Point", coordinates |-> <<elem.lon, elem.lat>>]]

\* api.py 183-191: the LineString feature of a way
WayFeature(elem) ==
    [type |-> "Feature", id |-> elem.id,
     properties |-> IF elem.tags.present THEN elem.tags ELSE [present |-> TRUE, kv |-> {}],
     geometry |-> [type |-> "LineString", coordinates |-> PointsOf(elem.geometry)]]

\* api.py 202-296: the member loop, run to its end
RECURSIVE RunMembers(_, _)
RunMembers(l, p) ==
    IF p > Len(l.members) THEN l ELSE RunMembers(MemberStep(l, p), p + 1)

\* api.py 298-313: the end of a relation whose member loop left the locals l:
\* elem is the relation as the code leaves it, features what it adds, err the
\* exception of poly_props.update on None
RelationResult(elem, l) ==
    IF HasPolygons(Append(l.polygons, l.poly)) /\ ~elem.tags.present
    THEN [elem |-> [elem EXCEPT !.members = l.members], features |-> <<>>,
          count |-> l.no_match_count, err |-> "AttributeError"]
    ELSE [elem |-> [elem EXCEPT !.members = l.members,
                                !.tags = IF HasPolygons(Append(l.polygons, l.poly))
                                         THEN InjectId(elem) ELSE @],
          features |-> RelationFeatures(elem, Append(l.polygons, l.poly)),
          count |-> l.no_match_count, err |-> ""]

\* api.py 193-313: a whole relation
ConvertRelation(elem, count) ==
    RelationResult(elem, RunMembers(RelationStart(elem.members, count), 1))

\* api.py 193-313: the call's state after element i, a relation with result c
WithRelation(r, i, c) ==
    [elements |-> [r.elements EXCEPT ![i] = c.elem],
     features |-> r.features \o c.features,
     no_match_count |-> c.count, err |-> c.err]

\* api.py 172-313: the call's state after element i
ElementStep(r, i) ==
    IF r.elements[i].type = "node"
    THEN [r EXCEPT !.features = Append(@, NodeFeature(r.elements[i]))]
    ELSE IF r.elements[i].type = "way"
    THEN [r EXCEPT !.features = Append(@, WayFeature(r.elements[i]))]
    ELSE WithRelation(r, i, ConvertRelation(r.elements[i], r.no_match_count))

\* api.py 172-313: the element loop from element i on, until the end or an exception
RECURSIVE RunElements(_, _)
RunElements(r, i) ==
    IF i > Len(r.elements) \/ r.err # "" THEN r ELSE RunElements(ElementStep(r, i), i + 1)

\* api.py 168-315: one call of _as_geojson: the FeatureCollection's features, the
\* elements as the call leaves them, and the exception when it raises
AsGeojson(elems) ==
    RunElements([elements |-> elems, features |-> <<>>, no_match_count |-> 0,
                 err |-> ""], 1)

NotRun == [elements |-> <<>>, features |-> <<>>, no_match_count |-> 0, err |-> ""]

-----------------------------------------------------------------------------
(* get, _construct_ql_query, _get_from_overpass (api.py 37-166) *)

\* str.rstrip(): the trailing whitespace removed
RECURSIVE RStrip(_)
RStrip(str) ==
    IF str # <<>> /\ Last(str) \in Whitespace
    THEN RStrip(SubSeq(str, 1, Len(str) - 1))
    ELSE str

\* str.endswith(";")
EndsWithTerminator(str) == str # <<>> /\ Last(str) = ";"

\* str.startswith(prefix)
StartsWith(str, prefix) ==
    Len(str) >= Len(prefix) /\ SubSeq(str, 1, Len(prefix)) = prefix

\* api.py 120-122: the fragment, right-stripped, ending in ";"
RawQuery(userquery) ==
    LET raw_query == RStrip(userquery)
    IN IF EndsWithTerminator(raw_query) THEN raw_query ELSE Append(raw_query, ";")

\* api.py 34: _QUERY_TEMPLATE = "[out:{out}];{query}out {verbosity};"
QueryTemplate(out, query, verbosity) ==
    <<"[out:", out, "];">> \o query \o <<"out ", verbosity, ";">>

\* api.py 35: _GEOJSON_QUERY_TEMPLATE = "[out:json];{query}out {verbosity};"
GeojsonQueryTemplate(query, verbosity) ==
    <<"[out:", "json", "];">> \o query \o <<"out ", verbosity, ";">>

\* api.py 119-135: _construct_ql_query
ConstructQlQuery(userquery, responseformat, verbosity) ==
    IF responseformat = "geojson"
    THEN GeojsonQueryTemplate(RawQuery(userquery), verbosity)
    ELSE QueryTemplate(responseformat, RawQuery(userquery), verbosity)

\* api.py 40: self.timeout = kwargs.get("timeout", self._timeout)
ConfiguredTimeout(kw) == IF kw = 0 THEN DefaultTimeout ELSE kw

\* api.py 150: raise TimeoutError(self._timeout): the class attribute of line 28
TimeoutErrorArg(self) == DefaultTimeout

\* api.py 160: raise ServerLoadError(self._timeout)
ServerLoadErrorArg(self) == DefaultTimeout

Raise(cls, arg) == [kind |-> "raise", cls |-> cls, arg |-> arg]

Returned(value) == [kind |-> "return", value |-> value]

\* StatusError without the branch of 429
StatusErrorNo429(self, status, query) ==
    IF status = 400 THEN Raise("OverpassSyntaxError", [query |-> query])
    ELSE IF status = 504 THEN Raise("ServerLoadError", [timeout |-> ServerLoadErrorArg(self)])
    ELSE Raise("UnknownOverpassError",
               [msg |-> "The request returned status code {code}", code |-> status])

\* api.py 154-163: the exception of a status other than 200
StatusError(self, status, query) ==
    IF status = 400 THEN Raise("OverpassSyntaxError", [query |-> query])
    ELSE IF status = 429 THEN Raise("MultipleRequestsError", [none |-> TRUE])
    ELSE IF status = 504 THEN Raise("ServerLoadError", [timeout |-> ServerLoadErrorArg(self)])
    ELSE Raise("UnknownOverpassError",
               [msg |-> "The request returned status code {code}", code |-> status])

\* api.py 154, 164: the status that returns the response
IsOk(status) == status = 200

\* api.py 97: "elements" not in response
LacksElements(doc) == ~doc.has_elements

\* api.py 101-102: overpass_remark and overpass_remark.startswith("runtime error")
IsRuntimeError(doc) ==
    doc.has_remark /\ doc.remark # <<>> /\ StartsWith(doc.remark, RuntimeErrorText)

\* api.py 105: responseformat is not "geojson": an identity test; a string equal to
\* "geojson" that is another object (built at run time, not interned) is "not" it
IsNotGeojson(a) == ~(a.responseformat = "geojson" /\ a.interned)

\* Validated with the remark tested before the elements key
ValidatedRemarkFirst(a, doc) ==
    IF IsRuntimeError(doc) THEN Raise("ServerRuntimeError", [remark |-> doc.remark])
    ELSE IF LacksElements(doc)
    THEN Raise("UnknownOverpassError",
               [msg |-> "Received an invalid answer from Overpass.", code |-> 0])
    ELSE IF IsNotGeojson(a) THEN Returned([kind |-> "document", doc |-> doc])
    ELSE [kind |-> "convert"]

\* api.py 92-109: what get does with the parsed document
Validated(a, doc) ==
    IF LacksElements(doc)
    THEN Raise("UnknownOverpassError",
               [msg |-> "Received an invalid answer from Overpass.", code |-> 0])
    ELSE IF IsRuntimeError(doc) THEN Raise("ServerRuntimeError", [remark |-> doc.remark])
    ELSE IF IsNotGeojson(a) THEN Returned([kind |-> "document", doc |-> doc])
    ELSE [kind |-> "convert"]

\* api.py 92-106: `response` is unbound when the content type was none of the known
Checked(a, resp) ==
    IF resp.kind = "unbound" THEN Raise("UnboundLocalError", [none |-> TRUE])
    ELSE IF ~a.build THEN Returned(resp)
    ELSE Validated(a, resp.doc)

\* api.py 109: the call of _as_geojson returns r.features or raises r.err
Converted(r) ==
    IF r.err # "" THEN Raise(r.err, [none |-> TRUE])
    ELSE Returned([kind |-> "FeatureCollection", features |-> r.features])

GeoIdle ==
    /\ elements = <<>> /\ orig = <<>> /\ again = [given |-> <<>>, result |-> NotRun]
    /\ pc = "idle" /\ ei = 0 /\ pos = 0
    /\ points = <<>> /\ poly = <<>> /\ polygons = <<>>
    /\ prev = "inner" /\ not_first = FALSE
    /\ no_match_count = 0
    /\ features = <<>>
    /\ last = NoLast
    /\ err = ""

\* api.py 37-43: the instance after API(timeout=...), and a call of get
Init ==
    /\ \E kw \in TimeoutArgs, ar \in AreaIds :
          api = [timeout |-> ConfiguredTimeout(kw), status |-> 0, area_id |-> ar]
    /\ \E n \in 0..MaxLen : \E q \in [1..n -> Tokens] :
       \E f \in SUPPORTED_FORMATS, v \in Verbosities, b \in BOOLEAN, i \in BOOLEAN :
          /\ (f # "geojson" => i)
          /\ args = [query |-> q, responseformat |-> f, verbosity |-> v, build |-> b,
                     interned |-> i]
    /\ gpc = "call"
    /\ full_query = <<>>
    /\ net = [kind |-> "none"]
    /\ posts = 0
    /\ response = [kind |-> "none"]
    /\ outcome = [kind |-> "none"]
    /\ GeoIdle

\* api.py 64-70: the full query
GetBuild ==
    /\ gpc = "call"
    /\ full_query' = IF args.build
                     THEN ConstructQlQuery(args.query, args.responseformat, args.verbosity)
                     ELSE args.query
    /\ gpc' = "built"
    /\ UNCHANGED <<api, args, net, posts, response, outcome>>
    /\ UNCHANGED geoVars

\* PostTimeout sending the request again after a timeout
PostTimeoutRetry ==
    /\ gpc = "built" /\ posts < 2
    /\ posts' = posts + 1
    /\ net' = [kind |-> "timeout", after |-> api.timeout]
    /\ UNCHANGED <<api, args, gpc, full_query, response, outcome>>
    /\ UNCHANGED geoVars

\* api.py 138-150: the POST runs into the timeout
PostTimeout ==
    /\ gpc = "built"
    /\ posts' = posts + 1
    /\ net' = [kind |-> "timeout", after |-> api.timeout]
    /\ outcome' = Raise("TimeoutError", [timeout |-> TimeoutErrorArg(api)])
    /\ gpc' = "done"
    /\ UNCHANGED <<api, args, full_query, response>>
    /\ UNCHANGED geoVars

\* api.py 138-166: the POST is answered: _status is kept, a status other than 200 raises
PostReply ==
    /\ gpc = "built"
    /\ posts' = posts + 1
    /\ \E st \in Statuses, ct \in ContentTypes, doc \in Documents :
          /\ (~IsOk(st) \/ ct # "application/json" => doc = NoDocument)
          /\ net' = [kind |-> "reply", status |-> st, content_type |-> ct, doc |-> doc,
                     timeout |-> api.timeout, data |-> full_query]
          /\ api' = [api EXCEPT !.status = st]
          /\ IF IsOk(st)
             THEN gpc' = "replied" /\ outcome' = outcome
             ELSE gpc' = "done" /\ outcome' = StatusError(api, st, full_query)
    /\ UNCHANGED <<args, full_query, response>>
    /\ UNCHANGED geoVars

\* api.py 77-90: by content type: csv rows, the xml text, or the parsed document;
\* with any other content type `response` is never bound
Decode ==
    /\ gpc = "replied"
    /\ IF net.content_type = "text/csv"
       THEN gpc' = "done" /\ outcome' = Returned([kind |-> "rows"]) /\ response' = response
       ELSE IF net.content_type \in {"text/xml", "application/xml", "application/osm3s+xml"}
       THEN gpc' = "done" /\ outcome' = Returned([kind |-> "text"]) /\ response' = response
       ELSE IF net.content_type = "application/json"
       THEN gpc' = "parsed" /\ outcome' = outcome
            /\ response' = [kind |-> "document", doc |-> net.doc]
       ELSE gpc' = "parsed" /\ outcome' = outcome /\ response' = [kind |-> "unbound"]
    /\ UNCHANGED <<api, args, full_query, net, posts>>
    /\ UNCHANGED geoVars

\* api.py 92-106: build=False returns the document; else the two checks, and the
\* document is returned unless the format is geojson
Validate ==
    /\ gpc = "parsed"
    /\ \E v \in {Checked(args, response)} :
          IF v.kind = "convert"
          THEN gpc' = "valid" /\ outcome' = outcome
          ELSE gpc' = "done" /\ outcome' = v
    /\ UNCHANGED <<api, args, full_query, net, posts, response>>
    /\ UNCHANGED geoVars

\* api.py 109: return self._as_geojson(response["elements"])
Convert ==
    /\ gpc = "valid"
    /\ outcome' = Converted(AsGeojson(response.doc.elements))
    /\ gpc' = "done"
    /\ UNCHANGED <<api, args, full_query, net, posts, response>>
    /\ UNCHANGED geoVars

Next ==
    \/ GetBuild
    \/ PostTimeout
    \/ PostReply
    \/ Decode
    \/ Validate
    \/ Convert

Spec == Init /\ [][Next]_vars

-----------------------------------------------------------------------------
(* Properties of get (checked under Spec) *)

\* C1: every reply status has exactly one result: 200 hands the response on and
\* raises nothing; 400 raises the syntax error carrying the query; 429 the
\* too-many-requests error; 504 the server-overloaded error; every other status the
\* unknown-server error carrying that status; no status but 200 yields a payload.
C1_StatusMapping ==
    net.kind = "reply" =>
      /\ api.status = net.status
      /\ net.status = 200 =>
            /\ gpc # "built"
            /\ (gpc = "replied" => outcome.kind = "none")
            /\ (outcome.kind = "raise" /\ outcome.cls = "UnknownOverpassError"
                   => outcome.arg.code = 0)
            /\ (outcome.kind = "raise" => outcome.cls \notin
                   {"OverpassSyntaxError", "MultipleRequestsError", "ServerLoadError"})
      /\ net.status # 200 => gpc = "done" /\ outcome.kind = "raise" /\ response.kind = "none"
      /\ net.status = 400 => outcome = Raise("OverpassSyntaxError", [query |-> net.data])
      /\ net.status = 429 => outcome.cls = "MultipleRequestsError"
      /\ net.status = 504 => outcome.cls = "ServerLoadError"
      /\ net.status \notin {200, 400, 429, 504} =>
            outcome.cls = "UnknownOverpassError" /\ outcome.arg.code = net.status

\* a reply of status 429 has been mapped
C1_Witness ==
    /\ net.kind = "reply" /\ net.status = 429 /\ gpc = "done"
    /\ outcome.cls = "MultipleRequestsError"

\* the fragment as the specification words it: without its trailing whitespace
SpecTrimmed(fragment) ==
    SubSeq(fragment, 1,
           IF \E k \in 1..Len(fragment) : fragment[k] \notin Whitespace
           THEN CHOOSE k \in 1..Len(fragment) :
                  /\ fragment[k] \notin Whitespace
                  /\ \A j \in (k + 1)..Len(fragment) : fragment[j] \in Whitespace
           ELSE 0)

\* ... and with ";" appended when it does not end in one
SpecTerminated(fragment) ==
    IF SpecTrimmed(fragment) # <<>> /\ SpecTrimmed(fragment)[Len(SpecTrimmed(fragment))] = ";"
    THEN SpecTrimmed(fragment)
    ELSE SpecTrimmed(fragment) \o <<";">>

\* the query the specification and tests/test_api.py 11-24 give for a fragment
SpecQuery(fragment, format) ==
    IF format = "geojson"
    THEN <<"[out:", "json", "];">> \o SpecTerminated(fragment) \o <<"out ", "body", " geom", ";">>
    ELSE <<"[out:", format, "];">> \o SpecTerminated(fragment) \o <<"out ", "body", ";">>

\* C3: the built query (default verbosity "body") is [out:<format>];<fragment>out body;
\* for json, xml and csv, and [out:json];<fragment>out body geom; for geojson.
C3_BuiltQuery ==
    (gpc # "call" /\ args.build /\ args.verbosity = "body")
      => full_query = SpecQuery(args.query, args.responseformat)

\* C7: the timeout error, and the server-overloaded error of status 504, carry the
\* timeout the instance was configured with, the one the request was sent with.
C7_CarriesConfiguredTimeout ==
    (outcome.kind = "raise" /\ outcome.cls \in {"TimeoutError", "ServerLoadError"})
      => outcome.arg.timeout = api.timeout

\* "starts with the literal text runtime error", in the tokens of Remarks
SpecRuntimeError(doc) ==
    /\ doc.has_remark /\ Len(doc.remark) >= 3
    /\ doc.remark[1] = "runtime" /\ doc.remark[2] = " " /\ doc.remark[3] = "error"

\* the invalid-response failure: UnknownOverpassError with the text of api.py 98
InvalidResponse ==
    Raise("UnknownOverpassError",
          [msg |-> "Received an invalid answer from Overpass.", code |-> 0])

\* C9: for a 200 reply of type application/json, once get has checked the document:
\* with build=True, no elements key fails as an invalid response; else a remark
\* starting with "runtime error" fails as a server runtime error carrying the
\* remark; else checking raises nothing. With build=False the document is returned.
C9_JsonValidation ==
    (net.kind = "reply" /\ net.status = 200 /\ net.content_type = "application/json"
       /\ gpc \in {"valid", "done"}) =>
      IF ~args.build
      THEN outcome = Returned([kind |-> "document", doc |-> net.doc])
      ELSE IF ~net.doc.has_elements THEN outcome = InvalidResponse
      ELSE IF SpecRuntimeError(net.doc)
      THEN outcome = Raise("ServerRuntimeError", [remark |-> net.doc.remark])
      ELSE \/ gpc = "valid" /\ outcome.kind = "none"
           \/ gpc = "done" /\ outcome.kind = "return"
           \/ gpc = "done" /\ outcome.kind = "raise" /\ outcome.cls = "AttributeError"

\* a document with elements and a runtime error remark has been refused
C9_Witness ==
    /\ gpc = "done" /\ args.build /\ net.kind = "reply" /\ net.status = 200
    /\ net.content_type = "application/json"
    /\ net.doc.has_elements /\ SpecRuntimeError(net.doc)
    /\ outcome.kind = "raise" /\ outcome.cls = "ServerRuntimeError"

-----------------------------------------------------------------------------
(* _as_geojson as a state machine: one action per element, one per member *)

\* the locals of the relation branch, with elem["members"]
Locals ==
    [members |-> elements[ei].members, points |-> points, poly |-> poly,
     polygons |-> polygons, prev |-> prev, not_first |-> not_first,
     no_match_count |-> no_match_count, rule |-> last.rule, role |-> last.role,
     visited |-> last.visited, src |-> last.src, seen |-> last.seen,
     taken |-> last.taken]

GetIdle ==
    /\ api = [timeout |-> DefaultTimeout, status |-> 0, area_id |-> "none"]
    /\ args = [query |-> <<>>, responseformat |-> "geojson", verbosity |-> "body",
               build |-> TRUE, interned |-> TRUE]
    /\ gpc = "idle"
    /\ full_query = <<>>
    /\ net = [kind |-> "none"]
    /\ posts = 0
    /\ response = [kind |-> "none"]
    /\ outcome = [kind |-> "none"]

\* api.py 170-171: features = [], no_match_count = 0, before the first element
InitGeo ==
    /\ \E n \in 0..MaxMembers : \E gs \in SegmentLists(n) : \E rs \in [1..n -> Roles] :
          elements = <<AWay, ARelation(MakeMembers(rs, gs)), ANode>>
    /\ orig = elements
    /\ again = [given |-> <<>>, result |-> NotRun]
    /\ pc = "loop"
    /\ ei = 1
    /\ pos = 0
    /\ points = <<>> /\ poly = <<>> /\ polygons = <<>>
    /\ prev = "inner" /\ not_first = FALSE
    /\ no_match_count = 0
    /\ features = <<>>
    /\ last = NoLast
    /\ err = ""
    /\ GetIdle

\* api.py 174-180: elem is a node
ConvertNode ==
    /\ pc = "loop" /\ ei <= Len(elements) /\ elements[ei].type = "node"
    /\ features' = Append(features, NodeFeature(elements[ei]))
    /\ ei' = ei + 1
    /\ UNCHANGED <<elements, orig, again, pc, pos, points, poly, polygons, prev,
                   not_first, no_match_count, last, err>>
    /\ UNCHANGED getVars

\* api.py 182-191: elem is a way
ConvertWay ==
    /\ pc = "loop" /\ ei <= Len(elements) /\ elements[ei].type = "way"
    /\ features' = Append(features, WayFeature(elements[ei]))
    /\ ei' = ei + 1
    /\ UNCHANGED <<elements, orig, again, pc, pos, points, poly, polygons, prev,
                   not_first, no_match_count, last, err>>
    /\ UNCHANGED getVars

\* api.py 193-200: elem is a relation: the result lists and conditions are reset
BeginRelation ==
    /\ pc = "loop" /\ ei <= Len(elements) /\ elements[ei].type = "relation"
    /\ pc' = "members"
    /\ pos' = 1
    /\ points' = <<>> /\ poly' = <<>> /\ polygons' = <<>>
    /\ prev' = "inner" /\ not_first' = FALSE
    /\ last' = NoLast
    /\ UNCHANGED <<elements, orig, again, ei, no_match_count, features, err>>
    /\ UNCHANGED getVars

\* api.py 202-296: the body of the member loop for mem = elem["members"][pos]
ProcessMember ==
    /\ pc = "members" /\ pos <= Len(elements[ei].members)
    /\ \E l \in {MemberStep(Locals, pos)} :
          /\ elements' = [elements EXCEPT ![ei].members = l.members]
          /\ points' = l.points /\ poly' = l.poly /\ polygons' = l.polygons
          /\ prev' = l.prev /\ not_first' = l.not_first
          /\ no_match_count' = l.no_match_count
          /\ last' = [rule |-> l.rule, role |-> l.role, visited |-> l.visited,
                       src |-> l.src, seen |-> l.seen, taken |-> l.taken]
    /\ pos' = pos + 1
    /\ UNCHANGED <<orig, again, pc, ei, features, err>>
    /\ UNCHANGED getVars

\* api.py 298-313: after the last member: polygons.append(poly), then the features;
\* poly_props.update raises AttributeError when the relation has no tags
FinishRelation ==
    /\ pc = "members" /\ pos > Len(elements[ei].members)
    /\ polygons' = Append(polygons, poly)
    /\ last' = [last EXCEPT !.src.polygons = Append(@, last.src.poly)]
    /\ IF HasPolygons(polygons') /\ ~elements[ei].tags.present
       THEN /\ pc' = "raised" /\ err' = "AttributeError"
            /\ UNCHANGED <<elements, features, ei>>
       ELSE /\ pc' = "loop" /\ ei' = ei + 1
            /\ features' = features \o RelationFeatures(elements[ei], polygons')
            /\ elements' = IF HasPolygons(polygons')
                           THEN [elements EXCEPT ![ei].tags = InjectId(elements[ei])]
                           ELSE elements
            /\ err' = err
    /\ UNCHANGED <<orig, again, pos, points, poly, prev, not_first, no_match_count>>
    /\ UNCHANGED getVars

\* api.py 315: return geojson.FeatureCollection(features)
Return ==
    /\ pc = "loop" /\ ei > Len(elements)
    /\ pc' = "returned"
    /\ UNCHANGED <<elements, orig, again, ei, pos, points, poly, polygons, prev,
                   not_first, no_match_count, features, last, err>>
    /\ UNCHANGED getVars

\* the caller passes the same element objects to _as_geojson once more
\* (api.py 168-315, the whole call)
ConvertAgain ==
    /\ pc = "returned"
    /\ pc' = "again"
    /\ again' = [given |-> elements, result |-> AsGeojson(elements)]
    /\ elements' = again'.result.elements
    /\ UNCHANGED <<orig, ei, pos, points, poly, polygons, prev, not_first,
                   no_match_count, features, last, err>>
    /\ UNCHANGED getVars

NextGeo ==
    \/ ConvertNode
    \/ ConvertWay
    \/ BeginRelation
    \/ ProcessMember
    \/ FinishRelation
    \/ Return
    \/ ConvertAgain

SpecGeo == InitGeo /\ [][NextGeo]_vars

-----------------------------------------------------------------------------
(* Properties of _as_geojson (checked under SpecGeo) *)

Closed(ring) == ring # <<>> /\ ring[1] = ring[Len(ring)]

\* the positions of the MultiPolygon features in fs
MultiPolygons(fs) == { i \in 1..Len(fs) : fs[i].geometry.type = "MultiPolygon" }

\* the rings of the MultiPolygon feature f
RingsOf(f) == f.geometry.coordinates[1]

\* two feature lists are equal: same length, same features in the same order
SameFeatures(fs, gs) ==
    /\ Len(fs) = Len(gs)
    /\ \A i \in 1..Len(fs) : fs[i].geometry.type = gs[i].geometry.type /\ fs[i] = gs[i]

\* the member loop of a relation has ended and its features are appended
RelationFinished ==
    /\ pc \in {"loop", "returned", "again"}
    /\ \E i \in 1..Len(elements) : i < ei /\ elements[i].type = "relation"

AllClosed(rings) == \A k \in 1..Len(rings) : Closed(rings[k])

\* C2: at every step of the ring assembly every ring stored in poly or polygons is
\* closed (first coordinate = last coordinate), and so is every ring of every
\* MultiPolygon feature emitted, by the first call and by a second one.
C2_RingsClosed ==
    /\ AllClosed(poly)
    /\ \A g \in 1..Len(polygons) : AllClosed(polygons[g])
    /\ \A i \in MultiPolygons(features) : AllClosed(RingsOf(features[i]))
    /\ \A i \in MultiPolygons(again.result.features) :
          AllClosed(RingsOf(again.result.features[i]))

\* a ring stitched from three members has been emitted
C2_Witness ==
    /\ pc = "returned"
    /\ \E i \in MultiPolygons(features) :
          \E k \in 1..Len(RingsOf(features[i])) : Len(RingsOf(features[i])[k]) = 6

\* C4: _as_geojson never aborts and never emits a relation feature with zero rings:
\* a relation without any closed ring adds no feature, and the features of the
\* other elements are emitted.
C4_NoRingNoFeature ==
    /\ pc # "raised"
    /\ \A i \in MultiPolygons(features) : RingsOf(features[i]) # <<>>
    /\ pc = "returned" =>
          /\ features[1] = WayFeature(AWay)
          /\ features[Len(features)] = NodeFeature(ANode)

\* C5: a second conversion of the same element objects, after the first has run,
\* returns the same features in the same order with the same rings and coordinates.
C5_SecondCallSame ==
    pc = "again" => again.result.err = "" /\ SameFeatures(again.result.features, features)

\* the second call was given a relation whose members the first call had
\* swapped, and returned a polygon
C5_Witness ==
    /\ pc = "again"
    /\ again.result.err = ""
    /\ MultiPolygons(again.result.features) # {}
    /\ \E e \in 1..Len(orig) :
          /\ orig[e].type = "relation"
          /\ \E i \in 1..Len(orig[e].members) :
                again.given[e].members[i].geometry \notin
                  { orig[e].members[i].geometry, Reverse(orig[e].members[i].geometry) }

\* C6: after _as_geojson returns, the caller's elements are as they were before the
\* call: member order, the geometry of each member, the tags of each element.
C6_ElementsUntouched ==
    pc = "returned" => elements = orig

\* C8: every polygon group of a relation is non-empty, its first ring holds
\* coordinates of outer members only and every later ring of inner members only.
C8_GroupRoles ==
    (RelationFinished /\ HasPolygons(polygons)) =>
      \A g \in 1..Len(last.src.polygons) :
         /\ last.src.polygons[g] # <<>>
         /\ last.src.polygons[g][1] = {"outer"}
         /\ \A k \in 2..Len(last.src.polygons[g]) : last.src.polygons[g][k] = {"inner"}

InnerOrOuter(mem) == mem.role \in {"inner", "outer"}

\* the elements with the members of other roles taken out of every relation
WithoutOtherRoles(elems) ==
    [i \in 1..Len(elems) |->
       IF elems[i].type = "relation"
       THEN [elems[i] EXCEPT !.members = SelectSeq(@, InnerOrOuter)]
       ELSE elems[i]]

\* C10: a member whose role is neither inner nor outer is ignored: it never
\* reverses points, never causes a swap, never changes the unmatched count, and
\* the features are those of the same elements without such members.
C10_OtherRolesIgnored ==
    /\ (pc = "members" /\ last.visited \notin {"inner", "outer", "none"})
          => last.rule \in {"fresh", "start", "end"}
    /\ pc = "returned"
          => SameFeatures(features, AsGeojson(WithoutOtherRoles(orig)).features)

\* the relation the caller passed, as it was before the call
OrigRelation == orig[2]

\* the features the relation added, between those of the way and of the node
RelationFeaturesOut == SubSeq(features, 2, Len(features) - 1)

\* Members read in the order given, each starting on the last point so far and a
\* ring ending at the first member that comes back to its start: the rings, and
\* ok = FALSE when a member does not continue the ring or the last ring stays open.
RECURSIVE StitchedRings(_, _, _, _)
StitchedRings(ms, p, cur, acc) ==
    IF p > Len(ms) THEN [ok |-> cur = <<>>, rings |-> acc]
    ELSE IF cur # <<>> /\ cur[Len(cur)] # PointsOf(ms[p].geometry)[1]
    THEN [ok |-> FALSE, rings |-> acc]
    ELSE IF Closed(cur \o PointsOf(ms[p].geometry))
    THEN StitchedRings(ms, p + 1, <<>>, Append(acc, cur \o PointsOf(ms[p].geometry)))
    ELSE StitchedRings(ms, p + 1, cur \o PointsOf(ms[p].geometry), acc)

PointSet(ring) == { ring[k] : k \in 1..Len(ring) }

\* no two of the rings share a coordinate
Disjoint(rings) ==
    \A i \in 1..Len(rings) : \A j \in 1..Len(rings) :
       i # j => PointSet(rings[i]) \cap PointSet(rings[j]) = {}

AllOfRole(ms, role) == \A i \in 1..Len(ms) : ms[i].role = role

\* the relation's tags with the id property
TagsWithId(elem) == [present |-> TRUE, kv |-> elem.tags.kv \cup {<<"id", elem.id>>}]

\* the members of the relation are all outer and form k >= 2 disjoint closed rings
DisjointOuterRings(ms, rs) ==
    /\ AllOfRole(ms, "outer")
    /\ rs.ok /\ Len(rs.rings) >= 2 /\ Disjoint(rs.rings)

\* one feature per ring of rs, in order, each holding that one ring
OneFeaturePerRing(elem, rs, fs) ==
    /\ Len(fs) = Len(rs.rings)
    /\ \A i \in 1..Len(fs) :
          /\ fs[i].geometry.type = "MultiPolygon"
          /\ fs[i].geometry.coordinates = << <<rs.rings[i]>> >>
          /\ fs[i].properties = TagsWithId(elem)

\* C11: a relation whose members form k >= 2 disjoint closed outer rings (members
\* in stitchable order, no inner members) gives exactly k features, one per ring
\* in member order, each a MultiPolygon holding exactly that ring, with the
\* relation's tags and an id property equal to the relation's id.
C11_FeaturePerOuterRing ==
    (pc = "returned"
       /\ DisjointOuterRings(OrigRelation.members,
                             StitchedRings(OrigRelation.members, 1, <<>>, <<>>)))
      => OneFeaturePerRing(OrigRelation,
                           StitchedRings(OrigRelation.members, 1, <<>>, <<>>),
                           RelationFeaturesOut)

\* two disjoint outer rings, one of them stitched from two members, were converted
C11_Witness ==
    /\ pc = "returned"
    /\ Len(OrigRelation.members) = 3
    /\ DisjointOuterRings(OrigRelation.members,
                          StitchedRings(OrigRelation.members, 1, <<>>, <<>>))
    /\ Len(StitchedRings(OrigRelation.members, 1, <<>>, <<>>).rings) = 2
    /\ Len(RelationFeaturesOut) = 2


\* C12: every call of get sends exactly one POST, whatever the outcome: none is sent
\* again after a timeout or a status other than 200, and nothing is decoded,
\* checked, converted, returned or raised before the one request has completed.
C12_OnePost ==
    /\ posts \in {0, 1}
    /\ (gpc \in {"call", "built"}) =>
          posts = 0 /\ net.kind = "none" /\ response.kind = "none" /\ outcome.kind = "none"
    /\ (gpc \in {"replied", "parsed", "valid", "done"}) => posts = 1 /\ net.kind # "none"
    /\ (net.kind = "timeout" \/ (net.kind = "reply" /\ net.status # 200)) =>
          gpc = "done" /\ outcome.kind = "raise" /\ response.kind = "none"

\* the one POST of a call ran into the timeout and the call ended with the error
C12_Witness ==
    /\ gpc = "done" /\ net.kind = "timeout" /\ posts = 1
    /\ outcome.kind = "raise" /\ outcome.cls = "TimeoutError"


\* the first token of the clause that the terminator at position k of q ends, past
\* leading whitespace; "" when the clause is empty
RECURSIVE ClauseHead(_, _, _)
ClauseHead(q, k, j) ==
    IF j = 0 \/ q[j] = ";"
    THEN ""
    ELSE IF ClauseHead(q, k, j - 1) # "" THEN ClauseHead(q, k, j - 1)
    ELSE IF q[j] \in Whitespace THEN "" ELSE q[j]

\* the selector clauses of the sampled fragments: node, way or relation statements
IsSelector(token) == token = "node[shop=retail]"

\* the fragment with (area:<id>) put before the terminator of every selector clause
RECURSIVE SpecAreaInjected(_, _, _)
SpecAreaInjected(q, id, k) ==
    IF k = 0 THEN <<>>
    ELSE IF q[k] = ";" /\ IsSelector(ClauseHead(q, k, k - 1))
    THEN SpecAreaInjected(q, id, k - 1) \o <<"(area:", id, ")", ";">>
    ELSE Append(SpecAreaInjected(q, id, k - 1), q[k])

\* the query the specification and tests/test_api.py 26-36 give with an area id
SpecAreaQuery(fragment, id, format) ==
    <<"[out:", IF format = "geojson" THEN "json" ELSE format, "];">>
      \o SpecAreaInjected(SpecTerminated(fragment), id, Len(SpecTerminated(fragment)))
      \o (IF format = "geojson" THEN <<"out ", "body", " geom", ";">>
                                 ELSE <<"out ", "body", ";">>)

\* C13: with an area id set, the built query has (area:<id>) right before the
\* terminator of every top-level node / way / relation clause of the fragment,
\* inside the format wrapping, and the other statements unchanged.
C13_AreaInjected ==
    (gpc # "call" /\ args.build /\ args.verbosity = "body" /\ api.area_id # "none")
      => full_query = SpecAreaQuery(args.query, api.area_id, args.responseformat)


\* an end of the segment g is the point pt
EndOn(g, pt) == PointsOf(g)[1] = pt \/ PointsOf(g)[Len(g)] = pt

\* the member at position p matches by none of the rules: no end of it is the last
\* or the first accumulated point, and no later member has an end on the last one
NoRuleMatches(members, p, pts) ==
    /\ pts # <<>>
    /\ ~EndOn(members[p].geometry, pts[Len(pts)])
    /\ ~EndOn(members[p].geometry, pts[1])
    /\ \A i \in (p + 1)..Len(members) : ~EndOn(members[i].geometry, pts[Len(pts)])

\* the sequence s without its element at position p
Without(s, p) == SubSeq(s, 1, p - 1) \o SubSeq(s, p + 1, Len(s))

\* the rings a member loop ends with, closed or left open
RingsLeft(l) == [polygons |-> Append(l.polygons, l.poly), points |-> l.points]

\* C14: with a ring in progress, a member that matches by none of the rules adds
\* exactly one to the unmatched count and changes nothing else (points, poly,
\* polygons, prev, not_first and the member sequence), and the members after it
\* give the rings they give when the skipped member is not in the sequence.
C14_SkipChangesNothing ==
    [][(pc = "members" /\ pos <= Len(elements[ei].members)
          /\ NoRuleMatches(elements[ei].members, pos, points))
         => /\ no_match_count' = no_match_count + 1
            /\ pos' = pos + 1 /\ pc' = pc
            /\ UNCHANGED <<elements, points, poly, polygons, prev, not_first, features>>
            /\ RingsLeft(RunMembers(Locals', pos'))
                 = RingsLeft(RunMembers([Locals EXCEPT
                                           !.members = Without(@, pos)], pos))]_vars

\* a member was skipped while a ring was in progress, with members still to come
C14_Witness ==
    /\ pc = "members" /\ last.rule = "nomatch" /\ no_match_count = 1
    /\ points # <<>> /\ pos <= Len(elements[ei].members)


\* the positions of the inner and outer members of ms
RingMembers(ms) == { j \in 1..Len(ms) : ms[j].role \in {"inner", "outer"} }

\* ring is made of whole members of ms, each at most once and none of those in
\* used, each in its order or exactly reversed, one after the other, and two
\* neighbours meet on the same coordinate
RECURSIVE StitchedFrom(_, _, _)
StitchedFrom(ring, ms, used) ==
    \/ ring = <<>>
    \/ \E j \in RingMembers(ms) \ used :
        \E blk \in {PointsOf(ms[j].geometry), Reverse(PointsOf(ms[j].geometry))} :
           /\ Len(blk) <= Len(ring)
           /\ SubSeq(ring, 1, Len(blk)) = blk
           /\ (Len(ring) > Len(blk) => ring[Len(blk)] = ring[Len(blk) + 1])
           /\ StitchedFrom(SubSeq(ring, Len(blk) + 1, Len(ring)), ms, used \cup {j})

AllStitched(rings, ms) == \A k \in 1..Len(rings) : StitchedFrom(rings[k], ms, {})

\* C15: segments are stitched only at coincident endpoints: in points and in every
\* ring stored or emitted, a member appended after another starts on the last
\* coordinate before it, and each member's coordinates stand together, in their
\* order or exactly reversed.
C15_StitchedAtEndpoints ==
    /\ pc = "members" =>
          /\ StitchedFrom(points, OrigRelation.members, {})
          /\ AllStitched(poly, OrigRelation.members)
          /\ \A g \in 1..Len(polygons) : AllStitched(polygons[g], OrigRelation.members)
    /\ pc \in {"loop", "returned"} =>
          \A i \in MultiPolygons(features) :
             AllStitched(RingsOf(features[i]), OrigRelation.members)

\* a ring of two members was emitted, the second one entered against its direction
C15_Witness ==
    /\ pc = "returned"
    /\ \E i \in MultiPolygons(features) : \E k \in 1..Len(RingsOf(features[i])) :
          Len(RingsOf(features[i])[k]) = 4
    /\ Len(OrigRelation.members) = 2
    /\ elements[2].members[1] = OrigRelation.members[1]
    /\ elements[2].members[2].geometry # OrigRelation.members[2].geometry
    /\ elements[2].members[2].geometry = Reverse(OrigRelation.members[2].geometry)


\* ms reads as exactly one closed ring, all of its members of the given role
OneRingOf(ms, role) ==
    /\ ms # <<>> /\ AllOfRole(ms, role)
    /\ StitchedRings(ms, 1, <<>>, <<>>).ok
    /\ Len(StitchedRings(ms, 1, <<>>, <<>>).rings) = 1

\* the first n members of ms are one closed outer ring, the others one closed inner
SplitsAt(ms, n) ==
    /\ OneRingOf(SubSeq(ms, 1, n), "outer")
    /\ OneRingOf(SubSeq(ms, n + 1, Len(ms)), "inner")

\* C16: a relation of one closed outer ring followed by one closed inner ring (each
\* of one or more members in stitchable order) gives exactly one feature, whose
\* polygon group holds exactly two rings: the outer ring, then the inner ring.
C16_OuterThenInner ==
    pc = "returned" =>
      \A n \in 1..(Len(OrigRelation.members) - 1) :
         SplitsAt(OrigRelation.members, n) =>
           /\ Len(RelationFeaturesOut) = 1
           /\ RelationFeaturesOut[1].geometry.type = "MultiPolygon"
           /\ RelationFeaturesOut[1].geometry.coordinates
                = << StitchedRings(OrigRelation.members, 1, <<>>, <<>>).rings >>
           /\ Len(RingsOf(RelationFeaturesOut[1])) = 2

\* an outer ring of two members followed by an inner ring of one was converted
C16_Witness ==
    /\ pc = "returned"
    /\ Len(OrigRelation.members) = 3
    /\ SplitsAt(OrigRelation.members, 2)
    /\ Len(RelationFeaturesOut) = 1
    /\ Len(RingsOf(RelationFeaturesOut[1])[1]) = 4


\* two outer members and nothing else, the second running from the last point of
\* the first back to its first point
TwoOuterEndToEnd(ms) ==
    /\ Len(ms) = 2 /\ AllOfRole(ms, "outer")
    /\ PointsOf(ms[2].geometry)[1] = PointsOf(ms[1].geometry)[Len(ms[1].geometry)]
    /\ PointsOf(ms[2].geometry)[Len(ms[2].geometry)] = PointsOf(ms[1].geometry)[1]

\* one MultiPolygon feature with the one ring: the points of the first member, then
\* those of the second, closed
OneRingOfBoth(ms, fs) ==
    /\ Len(fs) = 1
    /\ fs[1].geometry.type = "MultiPolygon"
    /\ fs[1].geometry.coordinates
         = << << PointsOf(ms[1].geometry) \o PointsOf(ms[2].geometry) >> >>
    /\ Closed(RingsOf(fs[1])[1])

\* C17: a relation of exactly two outer members, the second starting on the last
\* point of the first and ending on its first point, gives exactly one MultiPolygon
\* feature with exactly one ring: the first member's points, then the second's,
\* and the ring is closed.
C17_TwoOuterMembers ==
    (pc = "returned" /\ TwoOuterEndToEnd(OrigRelation.members))
      => OneRingOfBoth(OrigRelation.members, RelationFeaturesOut)

\* C17 as amended: the same, for a first member that is not a closed way itself
\* (its first and last points differ).
C17_TwoOpenOuterMembers ==
    (pc = "returned" /\ TwoOuterEndToEnd(OrigRelation.members)
       /\ ~Closed(PointsOf(OrigRelation.members[1].geometry)))
      => OneRingOfBoth(OrigRelation.members, RelationFeaturesOut)

\* two open outer members that meet end to end were converted to one ring
C17_Witness ==
    /\ pc = "returned" /\ TwoOuterEndToEnd(OrigRelation.members)
    /\ ~Closed(PointsOf(OrigRelation.members[1].geometry))
    /\ Len(RelationFeaturesOut) = 1
    /\ Len(RingsOf(RelationFeaturesOut[1])[1]) = 4


NoDuplicates(s) == \A i \in 1..Len(s) : \A j \in 1..Len(s) : s[i] = s[j] => i = j

\* ms holds every member object of the original sequence exactly once, each with its
\* role and with its geometry as given or reversed
PermutationOf(ms, original) ==
    /\ Len(ms) = Len(original)
    /\ NoDuplicates([i \in 1..Len(ms) |-> ms[i].ref])
    /\ \A i \in 1..Len(ms) :
          /\ ms[i].ref \in 1..Len(original)
          /\ ms[i].role = original[ms[i].ref].role
          /\ ms[i].geometry \in {original[ms[i].ref].geometry,
                                  Reverse(original[ms[i].ref].geometry)}

\* the member loop so far: the members treated are those now at the positions
\* passed, none twice, and none was consumed twice
OncePerMember ==
    /\ Len(last.seen) = pos - 1
    /\ \A k \in 1..Len(last.seen) : last.seen[k] = elements[ei].members[k].ref
    /\ NoDuplicates(last.seen)
    /\ NoDuplicates(last.taken)
    /\ \A k \in 1..Len(last.taken) : \E j \in 1..Len(last.seen) : last.taken[k] = last.seen[j]

\* a step of the member loop leaves the positions before pos as they are, and a
\* member it moves away from pos sits at a later position, still to be visited
DisplacedLater ==
    (pc = "members" /\ pos <= Len(elements[ei].members)) =>
       /\ pc' = "members" /\ pos' = pos + 1
       /\ \A k \in 1..(pos - 1) : elements'[ei].members[k] = elements[ei].members[k]
       /\ elements'[ei].members[pos].ref # elements[ei].members[pos].ref =>
             \E j \in pos'..Len(elements'[ei].members) :
                elements'[ei].members[j] = elements[ei].members[pos]

\* C18: the lookahead swap never loses or duplicates a member: the member sequence
\* stays a permutation of the original members, a member displaced from position p
\* sits at a later position and is visited later in the same pass, and every
\* member is treated in exactly one step and consumed into a ring at most once.
C18_SwapKeepsMembers ==
    /\ [](pc = "members" =>
            /\ PermutationOf(elements[ei].members, OrigRelation.members)
            /\ OncePerMember)
    /\ [][DisplacedLater]_vars

\* after a pass with a swap every member was treated once, and all were consumed
C18_Witness ==
    /\ pc = "members" /\ pos > Len(elements[ei].members)
    /\ Len(last.seen) = 3 /\ Len(last.taken) = 3
    /\ \E k \in 1..3 : elements[ei].members[k].ref # k

====
